---- MODULE Spec2Model ----
(***************************************************************************)
(* Model of the chatbot backend:                                           *)
(*   - TaskIntegrationService (services/task_integration_service.py)       *)
(*   - the chat endpoint (api/v1/chat_endpoints.py)                        *)
(*   - the conversation endpoints (api/v1/conversation_endpoints.py)       *)
(* ChatService, AIAgentService and the tool dispatcher are collaborators   *)
(* whose code is not part of the modelled sources; they are modelled from  *)
(* the specification and from the way the endpoints use them.              *)
(*                                                                         *)
(* Optional[...] parameters are sequences of length <= 1:                  *)
(*   None is << >>, a value x is << x >>.                                  *)
(***************************************************************************)
EXTENDS Integers, Sequences, FiniteSets, TLC

\* ------------------------------------------------------------------ bounds

\* Number of task ids (uuid4 values) ever generated.
MaxTasks == 2

\* Number of conversation ids and of message ids ever generated.
MaxConvs == 1

MaxMsgs == 2

\* Number of tool calls the agent makes in one turn.
MaxCalls == 1

\* ------------------------------------------------------------- input domains

Users == {"u1", "u2"}

None == << >>

Some(x) == << x >>

\* Python truthiness of an Optional[str]: None and "" are falsy.
Truthy(o) == o # None /\ o # Some("")

\* Task ids the callers pass: every generated id and one that never exists.
TaskIdArgs == 1..(MaxTasks + 1)

\* The text of a storage exception, str(e).
DbErrors == {"connection lost"}

\* Where a storage call of an operation raises: nowhere, at the SELECT
\* (session.exec), at session.commit, or at session.refresh.
NoFail == "none"

\* list_tasks(limit=20)
DefaultLimit == 20

Limits == {0, 1, 2, DefaultLimit}

\* ------------------------------------------------------------------- state

VARIABLES
  tasks,          \* the committed task table: task id -> row
  nextTaskId,     \* ids generated so far + 1 (uuid4 never repeats)
  clock,          \* logical time of datetime.utcnow(), strictly increasing
  last,           \* the last direct service call and the envelope it returned
  conversations,  \* the conversation table: conversation id -> row
  nextConvId,     \* next conversation id of the table's sequence
  messages,       \* the message table: message id -> row
  nextMsgId,      \* next message id of the table's sequence
  turn            \* the chat requests being served: position and locals

taskVars == <<tasks, nextTaskId, clock>>

chatVars == <<conversations, nextConvId, messages, nextMsgId, turn>>

vars == <<tasks, nextTaskId, clock, last,
          conversations, nextConvId, messages, nextMsgId, turn>>

\* ----------------------------------------------------- due-date conversion

\* datetime.fromisoformat(due_date.replace('Z', '+00:00')), the datetime
\* being represented by its isoformat() text; << >> when it raises.
fromisoformat(s) ==
  CASE s = "2026-03-01T09:00:00Z" -> Some("2026-03-01T09:00:00+00:00")
    [] s = "2026-03-01"           -> Some("2026-03-01T00:00:00")
    [] OTHER                      -> None

\* ------------------------------------------------------ result envelopes

NotFoundEnvelope ==
  [success |-> FALSE, message |-> <<"Task not found or access denied">>]

FailEnvelope(what, e) ==
  [success |-> FALSE, error |-> e, message |-> <<what, e>>]

\* The lookup with the owner filter dropped.
SelectAnyOwner(store, user_id, task_id) ==
  IF task_id \in DOMAIN store THEN Some(task_id) ELSE None

\* select(Task).where(Task.id == task_id, Task.user_id == user_id).first()
SelectOwned(store, user_id, task_id) ==
  IF task_id \in DOMAIN store /\ store[task_id].user_id = user_id
  THEN Some(task_id)
  ELSE None

\* ---------------------------------------------------------------- add_task

\* add_task letting the exception of an unparsable due date reach the outer
\* handler.
add_task_strict(store, id, now, user_id, title, description, priority, due_date, fail, e) ==
  LET parsed == IF Truthy(due_date) THEN fromisoformat(due_date[1]) ELSE None
      task == [user_id     |-> user_id,
               title       |-> title,
               description |-> IF Truthy(description) THEN description[1] ELSE "",
               completed   |-> FALSE,
               priority    |-> IF Truthy(priority) THEN priority[1] ELSE "medium",
               due_date    |-> parsed,
               created_at  |-> now]
      inserted == [i \in DOMAIN store \cup {id} |->
                     IF i = id THEN task ELSE store[i]]
  IN CASE Truthy(due_date) /\ parsed = None ->
            [tasks |-> store,
             result |-> FailEnvelope("Failed to add task: ", "Invalid isoformat string")]
       [] fail = "commit" ->
            [tasks |-> store,
             result |-> FailEnvelope("Failed to add task: ", e)]
       [] fail = "refresh" ->
            [tasks |-> inserted,
             result |-> FailEnvelope("Failed to add task: ", e)]
       [] OTHER ->
            [tasks |-> inserted,
             result |-> [success |-> TRUE, task_id |-> id, title |-> title,
                         message |-> <<"Task '", title, "' added successfully">>]]

\* The table after the call and the envelope returned.  `id` is the uuid4
\* drawn, `now` the utcnow() read; fail: NoFail, "commit" or "refresh";
\* e: the exception text.
add_task(store, id, now, user_id, title, description, priority, due_date, fail, e) ==
  LET parsed == IF Truthy(due_date) THEN fromisoformat(due_date[1]) ELSE None
      task == [user_id     |-> user_id,
               title       |-> title,
               description |-> IF Truthy(description) THEN description[1] ELSE "",
               completed   |-> FALSE,
               priority    |-> IF Truthy(priority) THEN priority[1] ELSE "medium",
               due_date    |-> parsed,
               created_at  |-> now]
      inserted == [i \in DOMAIN store \cup {id} |->
                     IF i = id THEN task ELSE store[i]]
  IN CASE fail = "commit" ->
            \* commit raises: rollback discards the pending row
            [tasks |-> store,
             result |-> FailEnvelope("Failed to add task: ", e)]
       [] fail = "refresh" ->
            \* commit succeeded, refresh raises: rollback has nothing to undo
            [tasks |-> inserted,
             result |-> FailEnvelope("Failed to add task: ", e)]
       [] OTHER ->
            [tasks |-> inserted,
             result |-> [success |-> TRUE, task_id |-> id, title |-> title,
                         message |-> <<"Task '", title, "' added successfully">>]]

\* ----------------------------------------------------------- complete_task

\* complete_task telling a caller that the task exists under another owner.
complete_task_leaky(store, user_id, task_id, fail, e) ==
  CASE fail = "exec" ->
         [tasks |-> store,
          result |-> FailEnvelope("Failed to complete task: ", e)]
    [] task_id \notin DOMAIN store ->
         [tasks |-> store, result |-> NotFoundEnvelope]
    [] store[task_id].user_id # user_id ->
         [tasks |-> store,
          result |-> [success |-> FALSE, message |-> <<"Access denied">>]]
    [] fail = "commit" ->
         [tasks |-> store,
          result |-> FailEnvelope("Failed to complete task: ", e)]
    [] OTHER ->
         [tasks |-> [store EXCEPT ![task_id].completed = TRUE],
          result |-> [success |-> TRUE, task_id |-> task_id,
                      message |-> <<"Task '", store[task_id].title,
                                    "' marked as completed">>]]

\* complete_task flipping the flag instead of setting it.
complete_task_toggle(store, user_id, task_id, fail, e) ==
  LET found == SelectOwned(store, user_id, task_id)
  IN CASE fail = "exec" ->
            [tasks |-> store,
             result |-> FailEnvelope("Failed to complete task: ", e)]
       [] found = None ->
            [tasks |-> store, result |-> NotFoundEnvelope]
       [] fail = "commit" ->
            [tasks |-> store,
             result |-> FailEnvelope("Failed to complete task: ", e)]
       [] OTHER ->
            [tasks |-> [store EXCEPT ![task_id].completed = ~@],
             result |-> [success |-> TRUE, task_id |-> task_id,
                         message |-> <<"Task '", store[task_id].title,
                                       "' marked as completed">>]]

complete_task(store, user_id, task_id, fail, e) ==
  LET found == SelectOwned(store, user_id, task_id)
  IN CASE fail = "exec" ->
            [tasks |-> store,
             result |-> FailEnvelope("Failed to complete task: ", e)]
       [] found = None ->
            [tasks |-> store, result |-> NotFoundEnvelope]
       [] fail = "commit" ->
            [tasks |-> store,
             result |-> FailEnvelope("Failed to complete task: ", e)]
       [] OTHER ->
            [tasks |-> [store EXCEPT ![task_id].completed = TRUE],
             result |-> [success |-> TRUE, task_id |-> task_id,
                         message |-> <<"Task '", store[task_id].title,
                                       "' marked as completed">>]]

\* -------------------------------------------------------------- list_tasks

RECURSIVE OldestFirst(_, _)
\* ORDER BY created_at ASC
OldestFirst(store, ids) ==
  IF ids = {} THEN << >>
  ELSE LET top == CHOOSE i \in ids :
                    \A j \in ids : store[i].created_at <= store[j].created_at
       IN <<top>> \o OldestFirst(store, ids \ {top})

RECURSIVE NewestFirst(_, _)
\* ORDER BY created_at DESC over the rows `ids` of `store`
NewestFirst(store, ids) ==
  IF ids = {} THEN << >>
  ELSE LET top == CHOOSE i \in ids :
                    \A j \in ids : store[j].created_at <= store[i].created_at
       IN <<top>> \o NewestFirst(store, ids \ {top})

\* LIMIT n
Limit(seq, n) == SubSeq(seq, 1, IF Len(seq) < n THEN Len(seq) ELSE n)

TaskDict(store, i) ==
  [id          |-> i,
   title       |-> store[i].title,
   description |-> store[i].description,
   completed   |-> store[i].completed,
   priority    |-> store[i].priority,
   due_date    |-> store[i].due_date]

list_tasks(store, user_id, completed, limit, fail, e) ==
  LET ids == {i \in DOMAIN store :
                /\ store[i].user_id = user_id
                /\ (completed # None => store[i].completed = completed[1])}
      rows == Limit(NewestFirst(store, ids), limit)
      task_list == [k \in 1..Len(rows) |-> TaskDict(store, rows[k])]
  IN IF fail = "exec"
     THEN [tasks |-> store,
           result |-> FailEnvelope("Failed to list tasks: ", e)]
     ELSE [tasks |-> store,
           result |-> [success |-> TRUE, tasks |-> task_list,
                       count |-> Len(task_list),
                       message |-> <<"Found ", ToString(Len(task_list)), " tasks">>]]

\* ------------------------------------------------------------- update_task

\* update_task testing `is not None` instead of truthiness: an empty string
\* clears the field.
update_task_clearing(store, user_id, task_id, title, description, priority, due_date, fail, e) ==
  LET found == SelectOwned(store, user_id, task_id)
      old == store[task_id]
      parsed == IF Truthy(due_date) THEN fromisoformat(due_date[1]) ELSE None
      new == [old EXCEPT
                !.title       = IF title # None THEN title[1] ELSE @,
                !.description = IF description # None THEN description[1] ELSE @,
                !.priority    = IF priority # None THEN priority[1] ELSE @,
                !.due_date    = IF parsed # None THEN parsed ELSE @]
  IN CASE fail = "exec" ->
            [tasks |-> store,
             result |-> FailEnvelope("Failed to update task: ", e)]
       [] found = None ->
            [tasks |-> store, result |-> NotFoundEnvelope]
       [] fail = "commit" ->
            [tasks |-> store,
             result |-> FailEnvelope("Failed to update task: ", e)]
       [] OTHER ->
            [tasks |-> [store EXCEPT ![task_id] = new],
             result |-> [success |-> TRUE, task_id |-> task_id,
                         message |-> <<"Task '", new.title,
                                       "' updated successfully">>]]

update_task(store, user_id, task_id, title, description, priority, due_date, fail, e) ==
  LET found == SelectOwned(store, user_id, task_id)
      old == store[task_id]
      parsed == IF Truthy(due_date) THEN fromisoformat(due_date[1]) ELSE None
      new == [old EXCEPT
                !.title       = IF Truthy(title) THEN title[1] ELSE @,
                !.description = IF Truthy(description) THEN description[1] ELSE @,
                !.priority    = IF Truthy(priority) THEN priority[1] ELSE @,
                !.due_date    = IF parsed # None THEN parsed ELSE @]
  IN CASE fail = "exec" ->
            [tasks |-> store,
             result |-> FailEnvelope("Failed to update task: ", e)]
       [] found = None ->
            [tasks |-> store, result |-> NotFoundEnvelope]
       [] fail = "commit" ->
            [tasks |-> store,
             result |-> FailEnvelope("Failed to update task: ", e)]
       [] OTHER ->
            [tasks |-> [store EXCEPT ![task_id] = new],
             result |-> [success |-> TRUE, task_id |-> task_id,
                         message |-> <<"Task '", new.title,
                                       "' updated successfully">>]]

\* ------------------------------------------------------------- delete_task

delete_task(store, user_id, task_id, fail, e) ==
  LET found == SelectOwned(store, user_id, task_id)
  IN CASE fail = "exec" ->
            [tasks |-> store,
             result |-> FailEnvelope("Failed to delete task: ", e)]
       [] found = None ->
            [tasks |-> store, result |-> NotFoundEnvelope]
       [] fail = "commit" ->
            [tasks |-> store,
             result |-> FailEnvelope("Failed to delete task: ", e)]
       [] OTHER ->
            [tasks |-> [i \in DOMAIN store \ {task_id} |-> store[i]],
             result |-> [success |-> TRUE, task_id |-> task_id,
                         message |-> <<"Task '", store[task_id].title,
                                       "' deleted successfully">>]]

\* ------------------------------------------- direct calls of the service

MutatingOps == {"complete_task", "update_task", "delete_task"}

\* Arguments the callers of the service pass in TaskSpec.
TitleArgs == {"", "a"}

NewTitleArgs == {None, Some(""), Some("b")}

AddFails == {NoFail, "commit", "refresh"}

WriteFails == {NoFail, "exec", "commit"}

ReadFails == {NoFail, "exec"}

Call(op, user_id, task_id, result) ==
  [op |-> op, user_id |-> user_id, task_id |-> task_id, result |-> result]

\* add_task taking the lowest id that is free in the table instead of a
\* fresh uuid4.
AddTaskReuse(u, title, fail, e) ==
  /\ nextTaskId <= MaxTasks
  /\ LET id == CHOOSE i \in 1..nextTaskId :
                 i \notin DOMAIN tasks /\ \A j \in 1..(i - 1) : j \in DOMAIN tasks
         r == add_task(tasks, id, clock, u, title, None, None, None, fail, e)
         stored == id \in DOMAIN r.tasks
     IN /\ tasks' = r.tasks
        /\ nextTaskId' = IF stored /\ id = nextTaskId THEN nextTaskId + 1
                         ELSE nextTaskId
        /\ clock' = IF stored THEN clock + 1 ELSE clock
        /\ last' = Call("add_task", u, 0, r.result)
        /\ UNCHANGED chatVars

AddTask(u, title, fail, e) ==
  /\ nextTaskId <= MaxTasks
  /\ LET r == add_task(tasks, nextTaskId, clock, u, title, None, None, None, fail, e)
         stored == nextTaskId \in DOMAIN r.tasks
     IN /\ tasks' = r.tasks
        /\ nextTaskId' = IF stored THEN nextTaskId + 1 ELSE nextTaskId
        /\ clock' = IF stored THEN clock + 1 ELSE clock
        /\ last' = Call("add_task", u, 0, r.result)
        /\ UNCHANGED chatVars

CompleteTask(u, id, fail, e) ==
  LET r == complete_task(tasks, u, id, fail, e)
  IN /\ tasks' = r.tasks
     /\ last' = Call("complete_task", u, id, r.result)
     /\ UNCHANGED <<nextTaskId, clock>>
     /\ UNCHANGED chatVars

ListTasks(u, completed, limit, fail, e) ==
  LET r == list_tasks(tasks, u, completed, limit, fail, e)
  IN /\ tasks' = r.tasks
     /\ last' = Call("list_tasks", u, 0, r.result)
     /\ UNCHANGED <<nextTaskId, clock>>
     /\ UNCHANGED chatVars

UpdateTask(u, id, title, fail, e) ==
  LET r == update_task(tasks, u, id, title, None, None, None, fail, e)
  IN /\ tasks' = r.tasks
     /\ last' = Call("update_task", u, id, r.result)
     /\ UNCHANGED <<nextTaskId, clock>>
     /\ UNCHANGED chatVars

DeleteTask(u, id, fail, e) ==
  LET r == delete_task(tasks, u, id, fail, e)
  IN /\ tasks' = r.tasks
     /\ last' = Call("delete_task", u, id, r.result)
     /\ UNCHANGED <<nextTaskId, clock>>
     /\ UNCHANGED chatVars

NoTurn ==
  [pc |-> "idle", user_id |-> "u1", conversation_id |-> None, message |-> << >>,
   conv |-> 0, user_msg |-> 0, asst_msg |-> 0, history |-> << >>,
   trail |-> << >>, response |-> << >>, result |-> [kind |-> "none"]]

Turns == {"t1"}

Init ==
  /\ tasks = << >>
  /\ nextTaskId = 1
  /\ clock = 1
  /\ last = Call("none", "u1", 0, [success |-> TRUE])
  /\ conversations = << >>
  /\ nextConvId = 1
  /\ messages = << >>
  /\ nextMsgId = 1
  /\ turn = [t \in Turns |-> NoTurn]

TaskNext ==
  \/ \E u \in Users, title \in TitleArgs, fail \in AddFails, e \in DbErrors :
       AddTask(u, title, fail, e)
  \/ \E u \in Users, id \in TaskIdArgs, fail \in WriteFails, e \in DbErrors :
       CompleteTask(u, id, fail, e)
  \/ \E u \in Users, c \in {None, Some(TRUE), Some(FALSE)}, n \in Limits,
        fail \in ReadFails, e \in DbErrors :
       ListTasks(u, c, n, fail, e)
  \/ \E u \in Users, id \in TaskIdArgs, title \in NewTitleArgs,
        fail \in WriteFails, e \in DbErrors :
       UpdateTask(u, id, title, fail, e)
  \/ \E u \in Users, id \in TaskIdArgs, fail \in WriteFails, e \in DbErrors :
       DeleteTask(u, id, fail, e)

TaskSpec == Init /\ [][TaskNext]_vars

\* ------------------------- direct calls that supply the optional fields

\* Number of task ids generated in FieldSpec.
MaxFieldTasks == 1

\* Arguments the callers pass in FieldSpec: given, omitted, parsable and
\* unparsable due dates, a priority outside the enumerated set.
AddDescriptionArgs == {None, Some("d")}

AddPriorityArgs == {None, Some("urgent")}

AddDueDateArgs == {None, Some("2026-03-01"), Some("tomorrow")}

UpdateDescriptionArgs == {None, Some(""), Some("d")}

UpdatePriorityArgs == {None, Some("high")}

UpdateDueDateArgs == {None, Some("tomorrow"), Some("2026-03-01")}

AddTaskFields(u, description, priority, due_date) ==
  /\ nextTaskId <= MaxFieldTasks
  /\ LET r == add_task(tasks, nextTaskId, clock, u, "a", description, priority,
                       due_date, NoFail, "")
     IN /\ tasks' = r.tasks
        /\ nextTaskId' = nextTaskId + 1
        /\ clock' = clock + 1
        /\ last' = Call("add_task", u, 0, r.result)
        /\ UNCHANGED chatVars

UpdateTaskFields(u, id, title, description, priority, due_date) ==
  LET r == update_task(tasks, u, id, title, description, priority, due_date,
                       NoFail, "")
  IN /\ tasks' = r.tasks
     /\ last' = Call("update_task", u, id, r.result)
     /\ UNCHANGED <<nextTaskId, clock>>
     /\ UNCHANGED chatVars

\* In FieldSpec the callers name their own stored tasks; calls on absent and
\* foreign ids are those of TaskSpec.
FieldNext ==
  \/ \E u \in Users, d \in AddDescriptionArgs, p \in AddPriorityArgs,
        due \in AddDueDateArgs :
       AddTaskFields(u, d, p, due)
  \/ \E id \in DOMAIN tasks, t \in NewTitleArgs, d \in UpdateDescriptionArgs,
        p \in UpdatePriorityArgs, due \in UpdateDueDateArgs :
       UpdateTaskFields(tasks[id].user_id, id, t, d, p, due)
  \/ \E id \in DOMAIN tasks : CompleteTask(tasks[id].user_id, id, NoFail, "")

FieldSpec == Init /\ [][FieldNext]_vars



\* ============================================================ chat service

\* Characters of request messages and agent responses; texts are sequences
\* of characters.
Whitespace == {" ", "\t"}

RECURSIVE lstrip(_)
lstrip(m) ==
  IF m # << >> /\ Head(m) \in Whitespace THEN lstrip(Tail(m)) ELSE m

RECURSIVE rstrip(_)
rstrip(m) ==
  IF m # << >> /\ m[Len(m)] \in Whitespace
  THEN rstrip(SubSeq(m, 1, Len(m) - 1))
  ELSE m

\* str.strip()
strip(m) == rstrip(lstrip(m))

\* The check with the strip() forgotten.
IsEmptyMessage(m) == m = << >>

\* not request.message or len(request.message.strip()) == 0
IsBlankMessage(m) == m = << >> \/ Len(strip(m)) = 0

MessageArgs == { << >>, <<" ", "\t">>, <<" ", "h", "i">> }

ResponseTexts == { << >>, <<"o", "k">> }

\* str(e) of what the agent call raises.
AgentErrors == {"agent timeout", "api key rejected"}

\* conversation_id: Optional[int]
ConvIdArgs == {None} \cup {Some(c) : c \in 0..MaxConvs}

\* chat_service.get_conversation_history(conversation.id, limit=20)
HistoryLimit == 20

\* limit: int = 100 of get_conversation_messages
DefaultMessagesLimit == 100

MessagesLimits == {1, DefaultMessagesLimit}

\* ---- ChatService

\* The conversation exists and belongs to user_id; otherwise the call raises
\* the not-found error.
OwnsConversation(convs, conversation_id, user_id) ==
  /\ conversation_id \in DOMAIN convs
  /\ convs[conversation_id].user_id = user_id

\* Ids of the messages of a conversation, in creation order.
RECURSIVE Ascending(_)
Ascending(ids) ==
  IF ids = {} THEN << >>
  ELSE LET lo == CHOOSE i \in ids : \A j \in ids : i <= j
       IN <<lo>> \o Ascending(ids \ {lo})

\* The `limit` most recent messages of a conversation, oldest first.
RecentWindow(msgs, conversation_id, limit) ==
  LET all == Ascending({m \in DOMAIN msgs :
                          msgs[m].conversation_id = conversation_id})
      n == Len(all)
  IN IF limit <= 0 THEN << >>
     ELSE IF n <= limit THEN all ELSE SubSeq(all, n - limit + 1, n)

get_conversation_history(msgs, conversation_id, limit) ==
  RecentWindow(msgs, conversation_id, limit)

get_conversation_messages(msgs, conversation_id, limit) ==
  RecentWindow(msgs, conversation_id, limit)

\* add_message taking the conversation for granted.
ConversationAssumed(convs, conversation_id) == TRUE

\* add_message succeeds if the conversation exists; on a conversation that
\* is gone it raises, and the endpoint's generic handler answers.
ConversationExists(convs, conversation_id) == conversation_id \in DOMAIN convs

\* The message table after add_message(conversation_id, role, content).
add_message(msgs, id, conversation_id, role, content) ==
  [m \in DOMAIN msgs \cup {id} |->
     IF m = id
     THEN [conversation_id |-> conversation_id, role |-> role, content |-> content]
     ELSE msgs[m]]

\* The message table after the cascade of delete_conversation.
WithoutConversation(msgs, conversation_id) ==
  [m \in {k \in DOMAIN msgs : msgs[k].conversation_id # conversation_id} |->
     msgs[m]]

\* ---- responses

\* chatbot_exception_to_http(e) of a ChatbotError
ClassifiedError(kind) == [kind |-> kind]

\* HTTPException(500, detail=f"An error occurred: {str(e)}")
ServerError(e) == [kind |-> "HTTP_500", detail |-> <<"An error occurred: ", e>>]

\* ---- the tool dispatcher

ToolCallArgs ==
  { [tool |-> "add_task",      arguments |-> [title |-> "a"]],
    [tool |-> "complete_task", arguments |-> [task_id |-> 1]],
    [tool |-> "delete_task",   arguments |-> [task_id |-> 1]],
    [tool |-> "frobnicate",    arguments |-> [task_id |-> 1]] }

Opt(arguments, k) == IF k \in DOMAIN arguments THEN Some(arguments[k]) ELSE None

\* One requested tool call run against the task service for the turn's
\* owner: the table after it, and the envelope.
Dispatch(store, id, now, owner, call, fail, e) ==
  LET a == call.arguments
  IN CASE call.tool = "add_task" ->
            add_task(store, id, now, owner, a.title, Opt(a, "description"),
                     Opt(a, "priority"), Opt(a, "due_date"), fail, e)
       [] call.tool = "complete_task" ->
            complete_task(store, owner, a.task_id, fail, e)
       [] call.tool = "delete_task" ->
            delete_task(store, owner, a.task_id, fail, e)
       [] call.tool = "update_task" ->
            update_task(store, owner, a.task_id, Opt(a, "title"),
                        Opt(a, "description"), Opt(a, "priority"),
                        Opt(a, "due_date"), fail, e)
       [] call.tool = "list_tasks" ->
            list_tasks(store, owner,
                       Opt(a, "completed"),
                       IF "limit" \in DOMAIN a THEN a.limit ELSE DefaultLimit,
                       fail, e)
       [] OTHER ->
            [tasks |-> store,
             result |-> [success |-> FALSE, error |-> "unknown_tool",
                         message |-> <<"Unknown tool: ", call.tool>>]]

\* Storage outcomes of a dispatched call.
ToolFails(call) ==
  CASE call.tool = "add_task" -> AddFails
    [] call.tool \in MutatingOps -> {NoFail, "commit"}
    [] OTHER -> {NoFail}

\* ============================================================ chat endpoint

\* if request.conversation_id:
HasConversationId(conversation_id) ==
  conversation_id # None /\ conversation_id[1] # 0

Finished(t, fields, result) ==
  turn' = [turn EXCEPT ![t] = [fields EXCEPT !.pc = "done", !.result = result]]

\* The request arrives: validation, then get or create the conversation.
ChatReceive(t, u, conversation_id, message) ==
  LET req == [NoTurn EXCEPT !.user_id = u,
                            !.conversation_id = conversation_id,
                            !.message = message]
  IN /\ turn[t].pc \in {"idle", "done"}
     /\ IF IsBlankMessage(message)
        THEN /\ Finished(t, req, ClassifiedError("InvalidMessageError"))
             /\ UNCHANGED <<conversations, nextConvId>>
        ELSE IF HasConversationId(conversation_id)
        THEN /\ IF OwnsConversation(conversations, conversation_id[1], u)
                THEN turn' = [turn EXCEPT ![t] =
                                [req EXCEPT !.pc = "save_user",
                                            !.conv = conversation_id[1]]]
                ELSE Finished(t, req, ClassifiedError("NotFoundError"))
             /\ UNCHANGED <<conversations, nextConvId>>
        ELSE /\ nextConvId <= MaxConvs
             /\ conversations' =
                  [c \in DOMAIN conversations \cup {nextConvId} |->
                     IF c = nextConvId THEN [user_id |-> u] ELSE conversations[c]]
             /\ nextConvId' = nextConvId + 1
             /\ turn' = [turn EXCEPT ![t] =
                           [req EXCEPT !.pc = "save_user", !.conv = nextConvId]]
     /\ UNCHANGED <<messages, nextMsgId, last, taskVars>>

\* chat_service.add_message(conversation.id, "user", request.message);
\* `cap` bounds the message ids generated.
SaveUser(t, cap) ==
  /\ turn[t].pc = "save_user"
  /\ IF ConversationExists(conversations, turn[t].conv)
     THEN /\ nextMsgId <= cap
          /\ messages' = add_message(messages, nextMsgId, turn[t].conv,
                                     "user", turn[t].message)
          /\ nextMsgId' = nextMsgId + 1
          /\ turn' = [turn EXCEPT ![t].pc = "history",
                                  ![t].user_msg = nextMsgId]
     ELSE /\ Finished(t, turn[t], ServerError("conversation is gone"))
          /\ UNCHANGED <<messages, nextMsgId>>
  /\ UNCHANGED <<conversations, nextConvId, last, taskVars>>

ChatSaveUser(t) == SaveUser(t, MaxMsgs)

\* The history read with no limit.
ChatHistoryUnbounded(t) ==
  /\ turn[t].pc = "history"
  /\ turn' = [turn EXCEPT
                ![t].pc = "agent",
                ![t].history = get_conversation_history(messages, turn[t].conv,
                                                        nextMsgId)]
  /\ UNCHANGED <<conversations, nextConvId, messages, nextMsgId, last,
                 taskVars>>

\* history = chat_service.get_conversation_history(conversation.id, limit=20)
ChatHistory(t) ==
  /\ turn[t].pc = "history"
  /\ turn' = [turn EXCEPT
                ![t].pc = "agent",
                ![t].history = get_conversation_history(messages, turn[t].conv,
                                                        HistoryLimit)]
  /\ UNCHANGED <<conversations, nextConvId, messages, nextMsgId, last,
                 taskVars>>

\* Inside await ai_service.process_message(...): the agent service runs one
\* tool call through the dispatcher and records {tool, arguments, result}.
AgentToolCall(t, call, fail, e) ==
  /\ turn[t].pc = "agent"
  /\ Len(turn[t].trail) < MaxCalls
  /\ call.tool = "add_task" => nextTaskId <= MaxTasks
  /\ LET r == Dispatch(tasks, nextTaskId, clock, turn[t].user_id, call, fail, e)
         stored == nextTaskId \in DOMAIN r.tasks
     IN /\ tasks' = r.tasks
        /\ nextTaskId' = IF stored THEN nextTaskId + 1 ELSE nextTaskId
        /\ clock' = IF stored THEN clock + 1 ELSE clock
        /\ turn' = [turn EXCEPT ![t].trail =
                      Append(@, [tool |-> call.tool,
                                 arguments |-> call.arguments,
                                 result |-> r.result])]
  /\ UNCHANGED <<conversations, nextConvId, messages, nextMsgId, last>>

\* process_message returns {response, tool_calls, response_time}.
AgentReturn(t, response) ==
  /\ turn[t].pc = "agent"
  /\ turn' = [turn EXCEPT ![t].pc = "save_assistant", ![t].response = response]
  /\ UNCHANGED <<conversations, nextConvId, messages, nextMsgId, last,
                 taskVars>>

\* The failure handler undoing the user message as well.
AgentRaiseUndo(t, e) ==
  /\ turn[t].pc = "agent"
  /\ Finished(t, turn[t], ServerError(e))
  /\ messages' = [m \in DOMAIN messages \ {turn[t].user_msg} |-> messages[m]]
  /\ UNCHANGED <<conversations, nextConvId, nextMsgId, last, taskVars>>

\* process_message raises: except Exception -> HTTP 500.
AgentRaise(t, e) ==
  /\ turn[t].pc = "agent"
  /\ Finished(t, turn[t], ServerError(e))
  /\ UNCHANGED <<conversations, nextConvId, messages, nextMsgId, last,
                 taskVars>>

\* The assistant message saved whatever the response text.
AlwaysSave(response) == TRUE

\* if ai_result["response"]:
ShouldSaveAssistant(response) == response # << >>

\* ChatResponse(conversation_id, response, tool_calls=[ToolCall(**call) ...])
ChatResponse(t) ==
  [kind |-> "ok", conversation_id |-> turn[t].conv,
   response |-> turn[t].response,
   tool_calls |-> [k \in 1..Len(turn[t].trail) |->
                     [tool |-> turn[t].trail[k].tool,
                      arguments |-> turn[t].trail[k].arguments,
                      result |-> turn[t].trail[k].result]]]

\* Save the assistant response, then build and return the turn result;
\* `cap` bounds the message ids generated.
SaveAssistant(t, cap) ==
  /\ turn[t].pc = "save_assistant"
  /\ IF ~ShouldSaveAssistant(turn[t].response)
     THEN /\ Finished(t, turn[t], ChatResponse(t))
          /\ UNCHANGED <<messages, nextMsgId>>
     ELSE IF ConversationExists(conversations, turn[t].conv)
     THEN /\ nextMsgId <= cap
          /\ messages' = add_message(messages, nextMsgId, turn[t].conv,
                                     "assistant", turn[t].response)
          /\ nextMsgId' = nextMsgId + 1
          /\ Finished(t, [turn[t] EXCEPT !.asst_msg = nextMsgId], ChatResponse(t))
     ELSE /\ Finished(t, turn[t], ServerError("conversation is gone"))
          /\ UNCHANGED <<messages, nextMsgId>>
  /\ UNCHANGED <<conversations, nextConvId, last, taskVars>>

ChatSaveAssistant(t) == SaveAssistant(t, MaxMsgs)

\* ==================================================== conversation endpoints

MessageResponse(msgs, m) ==
  [id |-> m, conversation_id |-> msgs[m].conversation_id,
   role |-> msgs[m].role, content |-> msgs[m].content]

\* The endpoint with the ownership lookup left out.
get_messages_unchecked(convs, msgs, u, conversation_id, limit) ==
  LET ids == get_conversation_messages(msgs, conversation_id, limit)
  IN [status |-> "ok",
      messages |-> [k \in 1..Len(ids) |-> MessageResponse(msgs, ids[k])]]

\* GET /{user_id}/conversations/{conversation_id}/messages: the response.
get_messages_endpoint(convs, msgs, u, conversation_id, limit) ==
  IF OwnsConversation(convs, conversation_id, u)
  THEN LET ids == get_conversation_messages(msgs, conversation_id, limit)
       IN [status |-> "ok",
           messages |-> [k \in 1..Len(ids) |-> MessageResponse(msgs, ids[k])]]
  ELSE [status |-> "NotFoundError", messages |-> << >>]

\* DELETE /{user_id}/conversations/{conversation_id}: the tables after the
\* call and the response.
delete_conversation_endpoint(convs, msgs, u, conversation_id) ==
  IF OwnsConversation(convs, conversation_id, u)
  THEN [conversations |-> [c \in DOMAIN convs \ {conversation_id} |-> convs[c]],
        messages |-> WithoutConversation(msgs, conversation_id),
        status |-> "ok"]
  ELSE [conversations |-> convs, messages |-> msgs, status |-> "NotFoundError"]

\* A read: no table changes.
GetConversationMessages(u, conversation_id, limit) ==
  /\ get_messages_endpoint(conversations, messages, u, conversation_id,
                           limit).status \in {"ok", "NotFoundError"}
  /\ UNCHANGED vars

DeleteConversation(u, conversation_id) ==
  LET r == delete_conversation_endpoint(conversations, messages, u,
                                        conversation_id)
  IN /\ conversations' = r.conversations
     /\ messages' = r.messages
     /\ UNCHANGED <<nextConvId, nextMsgId, turn, last, taskVars>>

Next ==
  \/ \E t \in Turns, u \in Users, c \in ConvIdArgs, m \in MessageArgs :
       ChatReceive(t, u, c, m)
  \/ \E t \in Turns : ChatSaveUser(t)
  \/ \E t \in Turns : ChatHistory(t)
  \/ \E t \in Turns, call \in ToolCallArgs :
       \E fail \in ToolFails(call), e \in DbErrors : AgentToolCall(t, call, fail, e)
  \/ \E t \in Turns, r \in ResponseTexts : AgentReturn(t, r)
  \/ \E t \in Turns, e \in AgentErrors : AgentRaise(t, e)
  \/ \E t \in Turns : ChatSaveAssistant(t)
  \/ \E u \in Users, c \in 1..MaxConvs, n \in MessagesLimits :
       GetConversationMessages(u, c, n)
  \/ \E u \in Users, c \in 1..MaxConvs : DeleteConversation(u, c)

Spec == Init /\ [][Next]_vars

\* ------------------------------- turns on a conversation with a backlog

\* Number of messages earlier turns left in the conversation.
MaxBacklog == 21

\* The conversation of user "u1" as k earlier turns left it: each turn
\* stored its user message and, when `answered`, the assistant's reply.  The
\* ids are the last k the sequence generated below MaxBacklog + 1 (the ids
\* before them went to conversations that are deleted).
Backlog(k, answered) ==
  [m \in (MaxBacklog - k + 1)..MaxBacklog |->
     IF answered /\ (m - (MaxBacklog - k + 1)) % 2 = 1
     THEN [conversation_id |-> 1, role |-> "assistant", content |-> <<"o", "k">>]
     ELSE [conversation_id |-> 1, role |-> "user", content |-> <<" ", "h", "i">>]]

HistoryInit ==
  /\ tasks = << >>
  /\ nextTaskId = 1
  /\ clock = 1
  /\ last = Call("none", "u1", 0, [success |-> TRUE])
  /\ conversations = [c \in {1} |-> [user_id |-> "u1"]]
  /\ nextConvId = 2
  /\ \E k \in 0..MaxBacklog, answered \in BOOLEAN :
       messages = Backlog(k, answered)
  /\ nextMsgId = MaxBacklog + 1
  /\ turn = [t \in Turns |-> NoTurn]

HistoryNext ==
  \/ \E t \in Turns, u \in Users, c \in ConvIdArgs, m \in MessageArgs :
       ChatReceive(t, u, c, m)
  \/ \E t \in Turns : SaveUser(t, MaxBacklog + MaxMsgs)
  \/ \E t \in Turns : ChatHistory(t)
  \/ \E t \in Turns, r \in ResponseTexts : AgentReturn(t, r)
  \/ \E t \in Turns, e \in AgentErrors : AgentRaise(t, e)
  \/ \E t \in Turns : SaveAssistant(t, MaxBacklog + MaxMsgs)
  \/ \E u \in Users, c \in 1..MaxConvs, n \in MessagesLimits :
       GetConversationMessages(u, c, n)
  \/ \E u \in Users, c \in 1..MaxConvs : DeleteConversation(u, c)

HistorySpec == HistoryInit /\ [][HistoryNext]_vars

\* ===================================================== claims on the service

\* The task the call recorded in `c` named exists in `store` and belongs to
\* another user than the caller.
ForeignTarget(store, c) ==
  /\ c.op \in MutatingOps
  /\ c.task_id \in DOMAIN store
  /\ store[c.task_id].user_id # c.user_id

\* C1: task ownership isolation.  In every step, the call made by owner u
\* (recorded in last') leaves every task of another owner in the table and
\* unchanged; complete_task, update_task and delete_task aimed at another
\* user's task return success = false and leave the whole table unchanged;
\* and every task list_tasks returns to u is a stored task owned by u.
C1_TaskOwnershipIsolation ==
  [][LET u == last'.user_id
     IN /\ \A i \in DOMAIN tasks :
             tasks[i].user_id # u => i \in DOMAIN tasks' /\ tasks'[i] = tasks[i]
        /\ ForeignTarget(tasks, last') =>
             /\ last'.result.success = FALSE
             /\ tasks' = tasks
        /\ (last'.op = "list_tasks" /\ last'.result.success) =>
             \A k \in 1..Len(last'.result.tasks) :
                LET d == last'.result.tasks[k]
                IN d.id \in DOMAIN tasks /\ tasks[d.id].user_id = u]_vars

\* C1 witness: a mutating call was aimed at another user's existing task and
\* was refused, while the table holds tasks of both users.
C1_Witness ==
  /\ ForeignTarget(tasks, last)
  /\ last.result.success = FALSE
  /\ \E i, j \in DOMAIN tasks : tasks[i].user_id # tasks[j].user_id

\* The table with the tasks of every user other than u removed.
OnlyTasksOf(store, u) ==
  [i \in {j \in DOMAIN store : store[j].user_id = u} |-> store[i]]

\* C2: no existence leakage.  In every reachable table, for every caller u,
\* every task id and every storage outcome, complete_task, update_task and
\* delete_task return to u the envelope they return on the table without the
\* other users' tasks; and an id that exists under another owner gets the
\* same envelope as an id that exists nowhere.
C2_NoExistenceLeak ==
  \A u \in Users, f \in WriteFails, e \in DbErrors :
    LET mine == OnlyTasksOf(tasks, u)
    IN /\ \A id \in TaskIdArgs :
            /\ complete_task(tasks, u, id, f, e).result
                 = complete_task(mine, u, id, f, e).result
            /\ delete_task(tasks, u, id, f, e).result
                 = delete_task(mine, u, id, f, e).result
            /\ \A t \in NewTitleArgs :
                 update_task(tasks, u, id, t, None, None, None, f, e).result
                   = update_task(mine, u, id, t, None, None, None, f, e).result
       /\ \A id \in DOMAIN tasks, absent \in TaskIdArgs \ DOMAIN tasks :
            tasks[id].user_id # u =>
              /\ complete_task(tasks, u, id, f, e).result
                   = complete_task(tasks, u, absent, f, e).result
              /\ delete_task(tasks, u, id, f, e).result
                   = delete_task(tasks, u, absent, f, e).result
              /\ \A t \in NewTitleArgs :
                   update_task(tasks, u, id, t, None, None, None, f, e).result
                     = update_task(tasks, u, absent, t, None, None, None, f, e).result

\* C2 witness: the last call named another user's existing task, no storage
\* call failed, and the caller got the not-found envelope.
C2_Witness ==
  /\ ForeignTarget(tasks, last)
  /\ last.result = NotFoundEnvelope
  /\ TaskIdArgs \ DOMAIN tasks # {}

\* C10: right after a successful add_task(u, title) with a non-empty title,
\* the unfiltered list_tasks(u), with the default limit and with every
\* limit >= 1, returns a task with that title and completed = false.
C10_AddThenList ==
  (last.op = "add_task" /\ last.result.success /\ last.result.title # "") =>
    \A n \in Limits \ {0} :
      LET r == list_tasks(tasks, last.user_id, None, n, NoFail, "").result
      IN /\ r.success
         /\ \E k \in 1..Len(r.tasks) :
              /\ r.tasks[k].title = last.result.title
              /\ r.tasks[k].completed = FALSE

\* C10 witness: a task was just added for a user who already had one, so
\* that a list with limit 1 has to drop a task.
C10_Witness ==
  /\ last.op = "add_task" /\ last.result.success /\ last.result.title # ""
  /\ Cardinality({i \in DOMAIN tasks : tasks[i].user_id = last.user_id}) >= 2
  /\ list_tasks(tasks, last.user_id, None, 1, NoFail, "").result.count = 1

\* ================================================ claims on the chat endpoint

\* A message without any character other than whitespace.
WhitespaceOnly(m) == \A k \in 1..Len(m) : m[k] \in Whitespace

\* The step is turn t receiving a request.
Receives(t) == turn[t].pc \in {"idle", "done"} /\ turn'[t] # turn[t]

\* The turn's request named a conversation that exists and belongs to
\* another user.
ForeignConversation(t) ==
  /\ turn[t].pc # "idle"
  /\ turn[t].conversation_id # None
  /\ turn[t].conversation_id[1] \in DOMAIN conversations
  /\ conversations[turn[t].conversation_id[1]].user_id # turn[t].user_id

\* C3: conversation ownership isolation.  Against a conversation of another
\* user, the message retrieval answers not-found with no message, the
\* deletion answers not-found and leaves both tables as they are, and a chat
\* turn ends not-found (or invalid-message) having read and written nothing.
\* A turn holds a conversation only after the ownership lookup succeeded, so
\* every message it reads or appends is in a conversation of its user, and
\* no step adds a message to a conversation of another user than the turn's.
C3_ConversationIsolation ==
  /\ [](/\ \A u \in Users, c \in DOMAIN conversations :
             conversations[c].user_id # u =>
               /\ \A n \in MessagesLimits :
                    get_messages_endpoint(conversations, messages, u, c, n)
                      = [status |-> "NotFoundError", messages |-> << >>]
               /\ LET r == delete_conversation_endpoint(conversations, messages,
                                                        u, c)
                  IN /\ r.status = "NotFoundError"
                     /\ r.conversations = conversations
                     /\ r.messages = messages
        /\ \A t \in Turns :
             /\ ForeignConversation(t) =>
                  /\ turn[t].pc = "done"
                  /\ turn[t].result.kind \in {"NotFoundError", "InvalidMessageError"}
                  /\ turn[t].conv = 0 /\ turn[t].user_msg = 0
                  /\ turn[t].asst_msg = 0 /\ turn[t].history = << >>
             /\ turn[t].conv \in DOMAIN conversations =>
                  conversations[turn[t].conv].user_id = turn[t].user_id
             /\ \A k \in 1..Len(turn[t].history) :
                  turn[t].history[k] \in DOMAIN messages =>
                    messages[turn[t].history[k]].conversation_id = turn[t].conv)
  /\ [][\A m \in DOMAIN messages' \ DOMAIN messages :
          \E t \in Turns :
            /\ messages'[m].conversation_id = turn[t].conv
            /\ turn[t].conv \in DOMAIN conversations
            /\ conversations[turn[t].conv].user_id = turn[t].user_id]_vars

\* C3 witness: a turn of one user named a conversation of another user that
\* holds a message, and ended not-found.
C3_Witness ==
  \E t \in Turns :
    /\ ForeignConversation(t)
    /\ turn[t].result.kind = "NotFoundError"
    /\ \E m \in DOMAIN messages :
         messages[m].conversation_id = turn[t].conversation_id[1]

\* C4: a turn whose message is empty or whitespace-only ends with
\* InvalidMessageError whatever its conversation_id, holds no conversation,
\* saved nothing, never reached the agent, and the step that received it
\* changed no table.
C4_BlankMessageRejected ==
  /\ [](\A t \in Turns :
          (turn[t].pc # "idle" /\ WhitespaceOnly(turn[t].message)) =>
            /\ turn[t].pc = "done"
            /\ turn[t].result = ClassifiedError("InvalidMessageError")
            /\ turn[t].conv = 0 /\ turn[t].user_msg = 0 /\ turn[t].asst_msg = 0
            /\ turn[t].history = << >> /\ turn[t].trail = << >>)
  /\ [][\A t \in Turns :
          (Receives(t) /\ WhitespaceOnly(turn'[t].message)) =>
            /\ conversations' = conversations /\ nextConvId' = nextConvId
            /\ messages' = messages /\ nextMsgId' = nextMsgId
            /\ tasks' = tasks]_vars

\* C4 witness: a whitespace-only message sent to the caller's own existing
\* conversation was rejected.
C4_Witness ==
  \E t \in Turns :
    /\ turn[t].pc = "done"
    /\ turn[t].message # << >> /\ WhitespaceOnly(turn[t].message)
    /\ turn[t].conversation_id # None
    /\ OwnsConversation(conversations, turn[t].conversation_id[1], turn[t].user_id)
    /\ turn[t].result.kind = "InvalidMessageError"

\* C5: in a step that receives a valid request, a conversation is created
\* if and only if the request carries no conversation_id; with any
\* conversation_id (0 included) the turn uses that conversation, owned by
\* the caller, or ends not-found, and creates none.
C5_CreateOnlyWithoutId ==
  [][\A t \in Turns :
       (Receives(t) /\ ~WhitespaceOnly(turn'[t].message)) =>
         IF turn'[t].conversation_id = None
         THEN /\ DOMAIN conversations' = DOMAIN conversations \cup {turn'[t].conv}
              /\ turn'[t].conv \notin DOMAIN conversations
              /\ conversations'[turn'[t].conv].user_id = turn'[t].user_id
         ELSE /\ conversations' = conversations
              /\ \/ turn'[t].result.kind = "NotFoundError"
                 \/ /\ turn'[t].conv = turn'[t].conversation_id[1]
                    /\ OwnsConversation(conversations, turn'[t].conv,
                                        turn'[t].user_id)]_vars

\* The turn's own messages, as long as they are stored, are what it saved.
OwnMessagesIntact(t) ==
  /\ turn[t].user_msg \in DOMAIN messages =>
       messages[turn[t].user_msg] =
         [conversation_id |-> turn[t].conv, role |-> "user",
          content |-> turn[t].message]
  /\ turn[t].asst_msg \in DOMAIN messages =>
       messages[turn[t].asst_msg] =
         [conversation_id |-> turn[t].conv, role |-> "assistant",
          content |-> turn[t].response]

\* C6: turn ordering.  The user message is stored before the history is read
\* and the agent invoked; no assistant message exists while the agent has
\* not returned; a successful turn has stored its user message and, after
\* it, an assistant message exactly when the response text is non-empty;
\* and every message a step stores is the user message of a turn at its
\* save-user step or the non-empty response of a turn whose agent returned.
C6_TurnOrdering ==
  /\ [](\A t \in Turns :
          /\ turn[t].pc = "save_user" => turn[t].user_msg = 0 /\ turn[t].asst_msg = 0
          /\ turn[t].pc \in {"history", "agent", "save_assistant"} =>
               turn[t].user_msg # 0 /\ turn[t].asst_msg = 0
          /\ turn[t].result.kind = "ok" =>
               /\ turn[t].user_msg # 0
               /\ (turn[t].asst_msg # 0) = (turn[t].response # << >>)
               /\ turn[t].asst_msg # 0 => turn[t].asst_msg > turn[t].user_msg
          /\ OwnMessagesIntact(t))
  /\ [][LET new == DOMAIN messages' \ DOMAIN messages
        IN new # {} =>
             \E t \in Turns, m \in new :
               /\ new = {m}
               /\ messages'[m].conversation_id = turn[t].conv
               /\ \/ /\ turn[t].pc = "save_user"
                     /\ turn'[t].user_msg = m
                     /\ messages'[m].role = "user"
                     /\ messages'[m].content = turn[t].message
                  \/ /\ turn[t].pc = "save_assistant"
                     /\ turn'[t].asst_msg = m
                     /\ messages'[m].role = "assistant"
                     /\ messages'[m].content = turn[t].response
                     /\ turn[t].response # << >>]_vars

\* C6 witness: a turn succeeded with its user message followed by its
\* assistant message, both stored.
C6_Witness ==
  \E t \in Turns :
    /\ turn[t].result.kind = "ok"
    /\ turn[t].user_msg \in DOMAIN messages
    /\ turn[t].asst_msg \in DOMAIN messages
    /\ turn[t].user_msg < turn[t].asst_msg

\* C7: the step in which the agent call fails ends the turn with the
\* generic failure, changes no message, leaves the turn without assistant
\* message, and the user message saved before the call is still stored
\* (unless its conversation was deleted meanwhile).
C7_AgentFailureKeepsUserMessage ==
  [][\A t \in Turns :
       (turn[t].pc = "agent" /\ turn'[t].pc = "done") =>
         /\ turn'[t].result.kind = "HTTP_500"
         /\ messages' = messages
         /\ turn'[t].asst_msg = 0
         /\ turn[t].conv \in DOMAIN conversations =>
              /\ turn'[t].user_msg \in DOMAIN messages'
              /\ messages'[turn'[t].user_msg] =
                   [conversation_id |-> turn[t].conv, role |-> "user",
                    content |-> turn[t].message]]_vars

\* C7 witness: a turn failed in the agent call and its user message is
\* stored, with no assistant message.
C7_Witness ==
  \E t \in Turns :
    /\ turn[t].pc = "done"
    /\ turn[t].result.kind = "HTTP_500"
    /\ turn[t].result.detail[2] \in AgentErrors
    /\ turn[t].user_msg \in DOMAIN messages
    /\ messages[turn[t].user_msg].role = "user"
    /\ turn[t].asst_msg = 0

\* C8: a tool call of a turn is executed (an entry joins the turn's trail,
\* the task table may change) only once the turn's agent call has returned.
C8_ToolsRunAfterAgentReturned ==
  [][\A t \in Turns :
       (Len(turn'[t].trail) > Len(turn[t].trail) \/ tasks' # tasks) =>
         turn[t].pc # "agent"]_vars

\* C9: in a step that executes one tool call of a turn, a call that reports
\* success = false leaves the task table as it was (so the writes of the
\* calls before it stay and it leaves none), a call to an unknown tool
\* reports success = false with error "unknown_tool", and a failed call
\* does not end the turn: it stays in the agent call, where further calls
\* execute.
C9_IndependentToolCalls ==
  [][\A t \in Turns :
       Len(turn'[t].trail) > Len(turn[t].trail) =>
         LET entry == turn'[t].trail[Len(turn'[t].trail)]
         IN /\ entry.result.success = FALSE => tasks' = tasks
            /\ entry.tool \notin {"add_task", "complete_task", "list_tasks",
                                  "update_task", "delete_task"} =>
                 /\ entry.result.success = FALSE
                 /\ entry.result.error = "unknown_tool"
            /\ turn'[t].pc = "agent"]_vars

\* ========================================= claims on the service, continued

\* C11: complete_task is idempotent in effect.  In every reachable table, for
\* every task and its owner u, complete_task(u, id) called twice in a row
\* (no storage failure) reports success both times, leaves completed = true
\* after each call, and the second call changes nothing the first left; and
\* the task named by a successful complete_task call is stored completed.
C11_CompleteIdempotent ==
  /\ \A id \in DOMAIN tasks :
       LET u == tasks[id].user_id
           first == complete_task(tasks, u, id, NoFail, "")
           second == complete_task(first.tasks, u, id, NoFail, "")
       IN /\ first.result.success
          /\ first.tasks[id].completed
          /\ second.result.success
          /\ second.tasks[id].completed
          /\ second.tasks = first.tasks
          /\ first.tasks = [tasks EXCEPT ![id].completed = TRUE]
  /\ (last.op = "complete_task" /\ last.result.success) =>
       /\ last.task_id \in DOMAIN tasks
       /\ tasks[last.task_id].completed

\* C11 witness: a complete_task call just succeeded on a task that is stored
\* completed, next to a task that is not; the same call made again finds the
\* task completed already.
C11_Witness ==
  /\ last.op = "complete_task" /\ last.result.success
  /\ tasks[last.task_id].completed
  /\ complete_task(tasks, last.user_id, last.task_id, NoFail, "").result.success
  /\ \E j \in DOMAIN tasks : ~tasks[j].completed

\* The ids of the tasks that were stored and have been deleted: every id
\* below nextTaskId was given to a stored task.
DeletedIds == {i \in 1..(nextTaskId - 1) : i \notin DOMAIN tasks}

\* C12: a deleted task stays deleted.  No step brings the id of a deleted
\* task back into the table, whatever operations intervene; and in every
\* reachable table, for every deleted id, every user and every storage
\* outcome, complete_task, update_task and delete_task report
\* success = false (the not-found envelope when no storage call fails) and
\* leave the table as it is, and no list_tasks result names the id.
C12_DeletedStaysDeleted ==
  /\ [](\A id \in DeletedIds, u \in Users :
          /\ \A f \in WriteFails, e \in DbErrors :
               LET c == complete_task(tasks, u, id, f, e)
                   d == delete_task(tasks, u, id, f, e)
               IN /\ c.result.success = FALSE /\ c.tasks = tasks
                  /\ d.result.success = FALSE /\ d.tasks = tasks
                  /\ f = NoFail => c.result = NotFoundEnvelope
                  /\ f = NoFail => d.result = NotFoundEnvelope
                  /\ \A t \in NewTitleArgs :
                       LET w == update_task(tasks, u, id, t, None, None, None, f, e)
                       IN /\ w.result.success = FALSE /\ w.tasks = tasks
                          /\ f = NoFail => w.result = NotFoundEnvelope
          /\ \A c \in {None, Some(TRUE), Some(FALSE)}, n \in Limits :
               LET r == list_tasks(tasks, u, c, n, NoFail, "").result
               IN \A k \in 1..Len(r.tasks) : r.tasks[k].id # id)
  /\ [][\A id \in DeletedIds : id \notin DOMAIN tasks']_vars

\* C12 witness: a task was deleted, another task is stored, and the last
\* call, a complete_task or update_task naming the deleted id, got the
\* not-found envelope.
C12_Witness ==
  /\ last.op \in {"complete_task", "update_task"}
  /\ last.task_id \in DeletedIds
  /\ last.result = NotFoundEnvelope
  /\ tasks # << >>

\* C13: add_task with an empty title fails and stores no task: no add_task
\* call that was given an empty title reports success, and (update_task
\* never assigning an empty title) no stored task has an empty title.
C13_EmptyTitleRejected ==
  /\ (last.op = "add_task" /\ last.result.success) => last.result.title # ""
  /\ \A i \in DOMAIN tasks : tasks[i].title # ""

\* C14: uniform failure envelope.  Every call of add_task, complete_task,
\* list_tasks, update_task or delete_task returns an envelope (none raises),
\* and an envelope with success = false has both an error field and a
\* message field.
C14_UniformFailureEnvelope ==
  last.op # "none" =>
    /\ "success" \in DOMAIN last.result
    /\ last.result.success = FALSE =>
         {"error", "message"} \subseteq DOMAIN last.result

\* C17: every mutating operation is atomic.  A step in which add_task,
\* complete_task, update_task or delete_task caught an exception (its
\* envelope carries the error text) leaves the task table as it was before
\* the call.
C17_AtomicOperations ==
  [][(/\ last'.op \in {"add_task"} \cup MutatingOps
      /\ "error" \in DOMAIN last'.result) => tasks' = tasks]_vars

\* ---- claims on the fields of a task (FieldSpec)

\* A value was supplied for an optional field: neither null nor empty.
Supplied(o) == o # None /\ o[1] # ""

\* Every value a caller can pass for a due date, and those that do not parse.
DueDateArgs ==
  {None, Some(""), Some("2026-03-01"), Some("2026-03-01T09:00:00Z"),
   Some("tomorrow"), Some("2026-13-45")}

UnparsableDueDates == {Some("tomorrow"), Some("2026-13-45")}

TextArgs(new) == {None, Some(""), Some(new)}

\* C18: partial update semantics.  On every reachable table, for every
\* stored task, its owner and every combination of title, description,
\* priority and due date arguments (omitted, empty, or a value),
\* update_task succeeds and the updated row has the supplied value in each
\* of title, description and priority that was supplied non-empty, the
\* parsed due date when a due date was supplied that parses, and the stored
\* value in every other field; owner, completed flag and creation time are
\* the stored ones, the ids of the table are the same and every other row
\* is unchanged.
C18_PartialUpdate ==
  \A id \in DOMAIN tasks :
    \A title \in TextArgs("b"), description \in TextArgs("e"),
       priority \in TextArgs("low"), due_date \in DueDateArgs :
      LET old == tasks[id]
          r == update_task(tasks, old.user_id, id, title, description, priority,
                           due_date, NoFail, "")
          new == r.tasks[id]
      IN /\ r.result.success
         /\ DOMAIN r.tasks = DOMAIN tasks
         /\ \A j \in DOMAIN tasks \ {id} : r.tasks[j] = tasks[j]
         /\ new.title = IF Supplied(title) THEN title[1] ELSE old.title
         /\ new.description =
              IF Supplied(description) THEN description[1] ELSE old.description
         /\ new.priority = IF Supplied(priority) THEN priority[1] ELSE old.priority
         /\ new.due_date =
              IF Supplied(due_date) /\ due_date \notin UnparsableDueDates
              THEN fromisoformat(due_date[1])
              ELSE old.due_date
         /\ new.user_id = old.user_id
         /\ new.completed = old.completed
         /\ new.created_at = old.created_at

\* C18 witness: the last call was a successful update_task that set the
\* title of a completed task and left it the description, the priority and
\* the due date it was created with.
C18_Witness ==
  /\ last.op = "update_task" /\ last.result.success
  /\ LET row == tasks[last.task_id]
     IN /\ row.title = "b"
        /\ row.description = "d"
        /\ row.priority = "urgent"
        /\ row.due_date = fromisoformat("2026-03-01")
        /\ row.completed

\* C19: due-date leniency.  On every reachable table, add_task with a due
\* date that does not parse succeeds and stores the task it would store
\* with no due date given, without a due date; update_task with a due date
\* that does not parse succeeds, applies the other supplied fields as it
\* does with no due date given, and leaves the stored due date unchanged.
C19_DueDateLeniency ==
  \A bad \in UnparsableDueDates :
    /\ \A u \in Users, description \in TextArgs("e"), priority \in TextArgs("low") :
         LET r == add_task(tasks, nextTaskId, clock, u, "a", description,
                           priority, bad, NoFail, "")
             plain == add_task(tasks, nextTaskId, clock, u, "a", description,
                               priority, None, NoFail, "")
         IN /\ r.result.success
            /\ nextTaskId \in DOMAIN r.tasks
            /\ r.tasks[nextTaskId].due_date = None
            /\ r.tasks[nextTaskId].title = "a"
            /\ r.tasks = plain.tasks
    /\ \A id \in DOMAIN tasks :
         \A title \in TextArgs("b"), description \in TextArgs("e"),
            priority \in TextArgs("low") :
           LET u == tasks[id].user_id
               r == update_task(tasks, u, id, title, description, priority,
                                bad, NoFail, "")
               plain == update_task(tasks, u, id, title, description, priority,
                                    None, NoFail, "")
           IN /\ r.result.success
              /\ r.tasks[id].due_date = tasks[id].due_date
              /\ Supplied(title) => r.tasks[id].title = title[1]
              /\ Supplied(description) => r.tasks[id].description = description[1]
              /\ Supplied(priority) => r.tasks[id].priority = priority[1]
              /\ r.tasks = plain.tasks

\* C19 witness: a task stored with a due date was updated by a successful
\* call that set its title, and updating it with the due date "tomorrow"
\* leaves the table, its due date included, as it is.
C19_Witness ==
  /\ last.op = "update_task" /\ last.result.success
  /\ tasks[last.task_id].due_date # None
  /\ tasks[last.task_id].title = "b"
  /\ update_task(tasks, last.user_id, last.task_id, None, None, None,
                 Some("tomorrow"), NoFail, "").tasks = tasks

\* The enumerated priorities of a task.
PriorityEnum == {"low", "medium", "high"}

\* C20: task field invariant.  Every stored task's priority is a member of
\* the enumerated set, whatever priority arguments add_task and update_task
\* were given; and a task created with no priority and no description
\* given has priority "medium", the empty description and completed = false.
C20_TaskFieldInvariant ==
  /\ \A i \in DOMAIN tasks : tasks[i].priority \in PriorityEnum
  /\ \A u \in Users :
       LET row == add_task(tasks, nextTaskId, clock, u, "a", None, None, None,
                           NoFail, "").tasks[nextTaskId]
       IN /\ row.priority = "medium"
          /\ row.description = ""
          /\ row.completed = FALSE

\* ================================= claims on the chat endpoint, continued

\* C15: opaque server error.  The response of a turn that ended with the
\* generic failure does not depend on the text of the exception behind it:
\* it is the response the turn would have returned had the agent call
\* raised any other exception.
C15_OpaqueServerError ==
  \A t \in Turns :
    (turn[t].pc = "done" /\ turn[t].result.kind = "HTTP_500") =>
      \A e \in AgentErrors : turn[t].result = ServerError(e)

MessageIdsOf(c) == {m \in DOMAIN messages : messages[m].conversation_id = c}

\* The ids a history holds.
IdsIn(h) == {h[i] : i \in 1..Len(h)}

\* C21: bounded history.  The history a turn holds for the agent was read
\* after the turn stored its user message, has at most 20 entries, is in
\* ascending (append) order and so names no message twice; the step that
\* reads it takes the min(20, n) most recent of the n messages of the
\* conversation, the in-flight user message exactly once among them; and
\* the message retrieval never returns more messages than its limit.
C21_BoundedHistory ==
  /\ [](/\ \A t \in Turns :
             LET h == turn[t].history
             IN /\ Len(h) <= HistoryLimit
                /\ \A i, j \in 1..Len(h) : i < j => h[i] < h[j]
                /\ h # << >> => turn[t].user_msg # 0
                /\ Cardinality({i \in 1..Len(h) : h[i] = turn[t].user_msg}) <= 1
        /\ \A u \in Users, c \in DOMAIN conversations, n \in MessagesLimits :
             Len(get_messages_endpoint(conversations, messages, u, c, n).messages)
               <= n)
  /\ [][\A t \in Turns :
          (turn[t].pc = "history" /\ turn'[t].pc = "agent") =>
            LET h == turn'[t].history
                all == MessageIdsOf(turn[t].conv)
            IN /\ turn[t].user_msg # 0
               /\ Len(h) = IF Cardinality(all) < HistoryLimit
                           THEN Cardinality(all) ELSE HistoryLimit
               /\ IdsIn(h) \subseteq all
               /\ \A old \in all \ IdsIn(h), kept \in IdsIn(h) : old < kept
               /\ turn[t].user_msg \in all =>
                    Cardinality({i \in 1..Len(h) : h[i] = turn[t].user_msg}) = 1]_vars

\* C21 witness: a turn on a conversation of more than 20 messages holds a
\* history of exactly 20 that ends with its own user message and leaves
\* out the oldest messages, and the retrieval with limit 1 returns one
\* message of the conversation.
C21_Witness ==
  \E t \in Turns :
    /\ turn[t].pc = "agent"
    /\ Len(turn[t].history) = HistoryLimit
    /\ turn[t].history[HistoryLimit] = turn[t].user_msg
    /\ Cardinality(MessageIdsOf(turn[t].conv)) > HistoryLimit
    /\ \E old \in MessageIdsOf(turn[t].conv) : old < turn[t].history[1]
    /\ \E m \in MessageIdsOf(turn[t].conv) : messages[m].role = "assistant"
    /\ Len(get_messages_endpoint(conversations, messages, turn[t].user_id,
                                 turn[t].conv, 1).messages) = 1

====
